---- MODULE Spec2Model ----
(***************************************************************************)
(* Walkman: fuzzy-identity reconciliation (normalize_string,               *)
(* similarity_ratio, find_matching_file), the approval classifier          *)
(* (iTunesIntegrator), the ledger merge (enrich_approved_metadata,         *)
(* process_approved_songs) and the discovery engine (MusicDiscovery).      *)
(*                                                                         *)
(* Strings are sequences of characters.  A similarity score is the exact   *)
(* rational 2*M/T as a reduced fraction <<num, den>>: the float the code   *)
(* computes is the correctly rounded quotient of two small integers, so    *)
(* comparing the fractions compares the floats.                            *)
(***************************************************************************)
EXTENDS Integers, Sequences, FiniteSets, TLC

VARIABLES
    files,      \* ledger file name -> NoFile or File(the JSON list stored in it)
    playlist,   \* tracks of the configured approval playlists on the device
    pc,         \* the running script and its position
    mem,        \* the running script's local variables
    everClassified, \* history: canonical IDs that left Discovered by classification
    dirs,       \* the media directories: the files in discovered/, library/, staging/
    inp,        \* arguments of the pure function under check
    out         \* its results

vars == <<files, playlist, pc, mem, everClassified, dirs, inp, out>>

-----------------------------------------------------------------------------
(* Sequences *)

\* All sequences over S of length at most n
RECURSIVE SeqsUpTo(_, _)
SeqsUpTo(S, n) ==
    IF n = 0 THEN {<<>>}
    ELSE LET P == SeqsUpTo(S, n - 1)
         IN  P \cup {Append(p, x) : p \in {q \in P : Len(q) = n - 1}, x \in S}

Range(s) == {s[k] : k \in 1..Len(s)}

-----------------------------------------------------------------------------
(* Characters and strings *)

\* "A" lowercases to "a"; "Idot" is U+0130, whose lowercase is "i" followed
\* by the combining mark U+0307 ("dot"), which is not alphanumeric.
\* "mp3" stands for the three characters of the extension.
Chars == {"a", "b", "c", "d", "i", "A", "Idot", "dot", " ", "-", ".", "mp3",
          "y", "e", "s", "n", "o", "Y", "E", "S"}

IsAlnum(c) == c \in Chars \ {"dot", " ", "-", "."}

IsSpace(c) == c = " "

Lower(c) ==
    CASE c = "A" -> <<"a">>
      [] c = "Y" -> <<"y">>
      [] c = "E" -> <<"e">>
      [] c = "S" -> <<"s">>
      [] c = "Idot" -> <<"i", "dot">>
      [] OTHER -> <<c>>

RECURSIVE Flatten(_)
Flatten(ss) == IF ss = <<>> THEN <<>> ELSE Head(ss) \o Flatten(Tail(ss))

RECURSIVE LStrip(_)
LStrip(s) == IF s # <<>> /\ IsSpace(Head(s)) THEN LStrip(Tail(s)) ELSE s

RECURSIVE RStrip(_)
RStrip(s) ==
    IF s # <<>> /\ IsSpace(s[Len(s)]) THEN RStrip(SubSeq(s, 1, Len(s) - 1)) ELSE s

Strip(s) == RStrip(LStrip(s))

\* s.lower()
LowerStr(s) == Flatten([k \in 1..Len(s) |-> Lower(s[k])])

\* ''.join(c.lower() for c in s if c.isalnum() or c.isspace()).strip()
normalize_string(s) ==
    Strip(Flatten([k \in 1..Len(s) |->
        IF IsAlnum(s[k]) \/ IsSpace(s[k]) THEN Lower(s[k]) ELSE <<>>]))

-----------------------------------------------------------------------------
(* difflib.SequenceMatcher(None, a, b).ratio(), indices 0-based, half-open *)

RECURSIVE RunLen(_, _, _, _, _, _)
RunLen(a, b, i, j, ahi, bhi) ==
    IF i < ahi /\ j < bhi /\ a[i + 1] = b[j + 1]
    THEN 1 + RunLen(a, b, i + 1, j + 1, ahi, bhi)
    ELSE 0

SetMax(S) == CHOOSE x \in S : \A y \in S : y <= x
SetMin(S) == CHOOSE x \in S : \A y \in S : x <= y

\* The longest block a[i:i+k] = b[j:j+k] inside the window; of the longest
\* ones the one starting earliest in a, then earliest in b.
find_longest_match(a, b, alo, ahi, blo, bhi) ==
    IF alo >= ahi \/ blo >= bhi THEN <<alo, blo, 0>>
    ELSE
      LET k == SetMax({RunLen(a, b, i, j, ahi, bhi) : i \in alo..(ahi - 1), j \in blo..(bhi - 1)})
      IN  IF k = 0 THEN <<alo, blo, 0>>
          ELSE
            LET i == SetMin({x \in alo..(ahi - 1) :
                        \E y \in blo..(bhi - 1) : RunLen(a, b, x, y, ahi, bhi) = k})
                j == SetMin({y \in blo..(bhi - 1) : RunLen(a, b, i, y, ahi, bhi) = k})
            IN  <<i, j, k>>

RECURSIVE MatchedChars(_, _, _, _, _, _)
MatchedChars(a, b, alo, ahi, blo, bhi) ==
    LET m == find_longest_match(a, b, alo, ahi, blo, bhi)
    IN  IF m[3] = 0 THEN 0
        ELSE m[3] + MatchedChars(a, b, alo, m[1], blo, m[2])
                  + MatchedChars(a, b, m[1] + m[3], ahi, m[2] + m[3], bhi)

RECURSIVE Gcd(_, _)
Gcd(x, y) == IF y = 0 THEN x ELSE Gcd(y, x % y)

Frac(n, d) == LET g == Gcd(n, d) IN <<n \div g, d \div g>>

\* 2.0 * matches / length, and 1.0 when both strings are empty
SeqRatio(a, b) ==
    IF Len(a) + Len(b) = 0 THEN <<1, 1>>
    ELSE Frac(2 * MatchedChars(a, b, 0, Len(a), 0, Len(b)), Len(a) + Len(b))

similarity_ratio(a, b) == SeqRatio(normalize_string(a), normalize_string(b))

ScoreGT(x, y) == x[1] * y[2] > y[1] * x[2]
ScoreGE(x, y) == x[1] * y[2] >= y[1] * x[2]

DefaultThreshold == <<3, 4>>
ZeroScore == <<0, 1>>

\* An Optional value is a sequence of at most one element
None == <<>>
Some(x) == <<x>>

\* The value of a title or artist key the dict does not have
Absent == <<"KeyError">>

\* A track_id that is missing, None or empty: song.get('track_id') is falsy
NoId == ""

\* The content of a ledger file that does not exist
NoFile == <<>>
File(content) == <<content>>

-----------------------------------------------------------------------------
(* The Matcher: utils.find_matching_file, find_matching_metadata *)

\* f"{title} - {artist}" and f"{title} {artist}"
FilePattern(m) == m.title \o <<" ", "-", " ">> \o m.artist
SongPattern(m) == m.title \o <<" ">> \o m.artist

\* pathlib's stem: the name up to its last dot, when that dot is neither the
\* first nor the last character
Stem(name) ==
    LET dots == {k \in 1..Len(name) : name[k] = "."}
    IN  IF dots = {} THEN name
        ELSE LET k == SetMax(dots)
             IN  IF k > 1 /\ k < Len(name) THEN SubSeq(name, 1, k - 1) ELSE name

\* The scan of the pool from position k on, carrying <<best_match, best_score>>;
\* scores[k] is the similarity of the query to pool[k].
RECURSIVE BestScan(_, _, _, _)
BestScan(pool, scores, k, best) ==
    IF k > Len(pool) THEN best
    ELSE BestScan(pool, scores, k + 1,
                  IF ScoreGT(scores[k], best[2]) THEN <<Some(pool[k]), scores[k]>> ELSE best)

\* (accepting only a best score equal to the threshold)
BestResultExact(best, threshold) ==
    IF best[2] = threshold THEN best ELSE <<None, best[2]>>

BestResult(best, threshold) ==
    IF ScoreGE(best[2], threshold) THEN best ELSE <<None, best[2]>>

\* (the scan starting from best_score = -1.0)
find_matching_fileNegativeStart(metadata, file_list, threshold) ==
    LET scores == [k \in 1..Len(file_list) |->
                      similarity_ratio(FilePattern(metadata), Stem(file_list[k]))]
    IN  BestResult(BestScan(file_list, scores, 1, <<None, <<-1, 1>>>>), threshold)

find_matching_file(metadata, file_list, threshold) ==
    LET scores == [k \in 1..Len(file_list) |->
                      similarity_ratio(FilePattern(metadata), Stem(file_list[k]))]
    IN  BestResult(BestScan(file_list, scores, 1, <<None, ZeroScore>>), threshold)

find_matching_metadata(approved_song, liked_songs_list, threshold) ==
    LET approved_pattern == normalize_string(SongPattern(approved_song))
        scores == [k \in 1..Len(liked_songs_list) |->
                      similarity_ratio(approved_pattern,
                                       normalize_string(SongPattern(liked_songs_list[k])))]
    IN  BestResult(BestScan(liked_songs_list, scores, 1, <<None, ZeroScore>>), threshold)

-----------------------------------------------------------------------------
(* The Approval Classifier: iTunesIntegrator.classify_songs *)

ClassifyThreshold == <<3, 4>>

\* metadata['title'] and metadata['artist'] raise KeyError on a dict without
\* the key
HasTitleArtist(m) == m.title # Absent /\ m.artist # Absent

\* The set of normalized "{title} {artist}" patterns of the playlist tracks
OnTheGoPatterns(on_the_go_tracks) ==
    {normalize_string(SongPattern(t)) : t \in Range(on_the_go_tracks)}

\* The inner loop: some pattern of the set scores >= 0.75 (the loop breaks
\* at the first one it meets, in the set's iteration order)
IsApprovedGT(song_pattern, on_the_go_patterns) ==
    \E p \in on_the_go_patterns :
        ScoreGT(similarity_ratio(song_pattern, p), ClassifyThreshold)

IsApproved(song_pattern, on_the_go_patterns) ==
    \E p \in on_the_go_patterns :
        ScoreGE(similarity_ratio(song_pattern, p), ClassifyThreshold)

\* One pass of the loop body over record m; acc holds the two lists
ClassifyStepDropRejected(m, on_the_go_patterns, acc) ==
    IF IsApproved(normalize_string(SongPattern(m)), on_the_go_patterns)
    THEN [acc EXCEPT !.approved = Append(@, m)]
    ELSE acc

ClassifyStep(m, on_the_go_patterns, acc) ==
    IF IsApproved(normalize_string(SongPattern(m)), on_the_go_patterns)
    THEN [acc EXCEPT !.approved = Append(@, m)]
    ELSE [acc EXCEPT !.rejected = Append(@, m)]

\* The loop over discovered_metadata from position k on.  A record without
\* title or artist raises KeyError out of classify_songs: nothing is returned.
RECURSIVE ClassifyLoop(_, _, _, _)
ClassifyLoop(discovered_metadata, on_the_go_patterns, k, acc) ==
    IF k > Len(discovered_metadata) THEN acc
    ELSE IF ~HasTitleArtist(discovered_metadata[k])
         THEN [raised |-> TRUE, approved |-> <<>>, rejected |-> <<>>]
         ELSE ClassifyLoop(discovered_metadata, on_the_go_patterns, k + 1,
                  ClassifyStep(discovered_metadata[k], on_the_go_patterns, acc))

classify_songs(discovered_metadata, on_the_go_tracks) ==
    IF \E t \in Range(on_the_go_tracks) : ~HasTitleArtist(t)
    THEN [raised |-> TRUE, approved |-> <<>>, rejected |-> <<>>]
    ELSE ClassifyLoop(discovered_metadata, OnTheGoPatterns(on_the_go_tracks), 1,
                      [raised |-> FALSE, approved |-> <<>>, rejected |-> <<>>])

-----------------------------------------------------------------------------
(* The Ledger Merger: the append-unless-duplicate loop of
   process_approved_songs.main and enrich_approved_metadata *)

\* {s.get('track_id') for s in liked_songs if s.get('track_id')}
TrackIdsOf(songs) == {songs[k].track_id : k \in 1..Len(songs)} \ {NoId}

\* (a merge that does not remember the IDs it appends)
AddTrackIdNever(ids, song) == ids

\* if track_id: existing_track_ids.add(track_id)
AddTrackId(ids, song) ==
    IF song.track_id # NoId THEN ids \cup {song.track_id} ELSE ids

\* One pass of the loop body over a new record
MergeStepAlwaysAppend(song, acc) ==
    [acc EXCEPT !.liked_songs = Append(@, song), !.added_count = @ + 1]

MergeStep(song, acc) ==
    IF song.track_id # NoId /\ song.track_id \in acc.existing_track_ids
    THEN [acc EXCEPT !.duplicate_count = @ + 1]
    ELSE [acc EXCEPT !.liked_songs = Append(@, song),
                     !.existing_track_ids = AddTrackId(@, song),
                     !.added_count = @ + 1]

RECURSIVE MergeLoop(_, _, _)
MergeLoop(new_songs, k, acc) ==
    IF k > Len(new_songs) THEN acc
    ELSE MergeLoop(new_songs, k + 1, MergeStep(new_songs[k], acc))

\* (a merge that leaves out the new records equal to a record of the ledger)
MergeIntoLikedDistinct(liked_songs, new_songs) ==
    MergeLoop(SelectSeq(new_songs, LAMBDA r : r \notin Range(liked_songs)), 1,
              [liked_songs |-> liked_songs,
               existing_track_ids |-> TrackIdsOf(liked_songs),
               added_count |-> 0, duplicate_count |-> 0])

\* The merged list and the two counters
MergeIntoLiked(liked_songs, new_songs) ==
    MergeLoop(new_songs, 1,
              [liked_songs |-> liked_songs,
               existing_track_ids |-> TrackIdsOf(liked_songs),
               added_count |-> 0, duplicate_count |-> 0])

-----------------------------------------------------------------------------
(* The remote catalog consulted by the discovery engine and the enrichment *)

\* canonical ID -> the title and artist the remote service reports.  t1 and
\* t2 are two releases of one song, tagged differently; t3 is another song.
TrackIds == {"t1", "t2", "t3"}

Catalog ==
    [id \in TrackIds |->
        CASE id = "t1" -> [title |-> <<"a", "b">>, artist |-> <<"c">>]
          [] id = "t2" -> [title |-> <<"A", "b">>, artist |-> <<"c">>]
          [] id = "t3" -> [title |-> <<"d">>, artist |-> <<"d">>]]

\* sp.tracks(): the artist IDs of a track
TrackArtists ==
    [id \in TrackIds |-> IF id = "t3" THEN <<"ad">> ELSE <<"ac">>]

ArtistIds == {"ac", "ad"}

\* sp.artist_albums() and sp.album_tracks(): the track IDs on the albums and
\* singles of an artist, album by album (an album also lists the tracks the
\* artist shares with others)
ArtistAlbumTracks ==
    [a \in ArtistIds |->
        IF a = "ac" THEN <<"t1", "t2", "t3">> ELSE <<"t3", "t1">>]

\* A Song Record as the ledgers store it; track_id is NoId for a record
\* that was never matched to the remote catalog.
Song(id, title, artist) == [track_id |-> id, title |-> title, artist |-> artist]

\* convert_spotify_tracks_to_metadata, and the metadata dict the enrichment
\* builds from a search result
CatalogSong(id) == Song(id, Catalog[id].title, Catalog[id].artist)

-----------------------------------------------------------------------------
(* The discovery engine: MusicDiscovery *)

\* s[lo:hi] of Python, 0-based, clamped
Slice(s, lo, hi) ==
    LET h == IF hi < Len(s) THEN hi ELSE Len(s)
    IN  IF lo >= h THEN <<>> ELSE SubSeq(s, lo + 1, h)

Count(s, x) == Cardinality({k \in 1..Len(s) : s[k] = x})

FirstIndex(s, x) == SetMin({k \in 1..Len(s) : s[k] = x})

\* [x for x, n in Counter(s).most_common(limit)]: by falling count, equal
\* counts in order of first occurrence
MostCommon(s, limit) ==
    LET D == Range(s)
        Before(x, y) ==
            \/ Count(s, x) > Count(s, y)
            \/ Count(s, x) = Count(s, y) /\ FirstIndex(s, x) < FirstIndex(s, y)
        sorted == CHOOSE q \in [1..Cardinality(D) -> D] :
                      \A i, j \in 1..Cardinality(D) : i < j => Before(q[i], q[j])
    IN  Slice(sorted, 0, limit)

\* load_existing_songs: the four ledgers as lists (an absent file leaves the
\* list empty) and the exclusion set built from them
LoadedList(f) == IF f = NoFile THEN <<>> ELSE f[1]

ExcludedTrackIdsNoLiked(liked, approved, discovered, rejected) ==
    TrackIdsOf(approved \o discovered \o rejected)

ExcludedTrackIds(liked, approved, discovered, rejected) ==
    TrackIdsOf(liked \o approved \o discovered \o rejected)

\* analyze_taste_profile: profile['top_artist_ids'] (None without songs)
TopArtistIds(liked, approved) ==
    LET taste_songs == liked \o approved
        ids == [k \in 1..Len(taste_songs) |-> taste_songs[k].track_id]
        track_ids == SelectSeq(ids, LAMBDA t : t # NoId)
        sample_tracks == Slice(track_ids, 0, 50)
    IN  MostCommon(Flatten([k \in 1..Len(sample_tracks) |->
                                TrackArtists[sample_tracks[k]]]), 50)

\* The loop body of _get_album_tracks_from_artists for one album track
AlbumTrackStepNoAdd(id, acc) ==
    IF id \notin acc.excluded
    THEN [acc EXCEPT !.tracks = Append(@, id)]
    ELSE acc

AlbumTrackStep(id, acc) ==
    IF id \notin acc.excluded
    THEN [tracks |-> Append(acc.tracks, id), excluded |-> acc.excluded \cup {id}]
    ELSE acc

\* The nested loops over artists, albums and tracks, flattened to the
\* stream of album tracks: they stop once max_tracks were collected
RECURSIVE AlbumScan(_, _, _, _)
AlbumScan(stream, k, max_tracks, acc) ==
    IF k > Len(stream) \/ Len(acc.tracks) >= max_tracks THEN acc
    ELSE AlbumScan(stream, k + 1, max_tracks, AlbumTrackStep(stream[k], acc))

\* _get_album_tracks_from_artists; st carries self.excluded_track_ids and
\* the recommendations gathered so far.  When the remote service is down
\* every artist's albums raise and are skipped.
GetAlbumTracks(artist_ids, max_tracks, down, st) ==
    IF down THEN st
    ELSE LET stream == Flatten([k \in 1..Len(artist_ids) |->
                                   ArtistAlbumTracks[artist_ids[k]]])
             got == AlbumScan(stream, 1, max_tracks,
                              [tracks |-> <<>>, excluded |-> st.excluded])
         IN  [all |-> st.all \o got.tracks, excluded |-> got.excluded]

\* generate_recommendations: the four strategies, the fill step and the
\* trim.  The remote service fails on the first api.outage of the five
\* calls; api.sample is the order random.sample picks.
generate_recommendations(liked, approved, excluded, api, target_count) ==
    IF liked \o approved = <<>> THEN <<>>
    ELSE
      LET top == TopArtistIds(liked, approved)
          s0 == [all |-> <<>>, excluded |-> excluded]
          s1 == IF top = <<>> THEN s0
                ELSE GetAlbumTracks(Slice(top, 0, 10), 40, api.outage >= 1, s0)
          middle == IF Len(top) > 30 THEN Slice(top, 10, 30) ELSE Slice(top, 5, Len(top))
          s2 == IF top = <<>> THEN s1
                ELSE GetAlbumTracks(middle, 30, api.outage >= 2, s1)
          picked == Slice([k \in 1..Len(top) |-> top[api.sample[k]]], 0, 15)
          s3 == IF top = <<>> THEN s2
                ELSE GetAlbumTracks(picked, 20, api.outage >= 3, s2)
          tail == IF Len(top) > 30 THEN Slice(top, 30, Len(top)) ELSE Slice(top, 15, Len(top))
          less_common == IF tail = <<>> THEN top ELSE tail
          s4 == IF top = <<>> THEN s3
                ELSE GetAlbumTracks(less_common, 10, api.outage >= 4, s3)
          s5 == IF Len(s4.all) < target_count /\ top # <<>>
                THEN GetAlbumTracks(top, target_count - Len(s4.all), api.outage >= 5, s4)
                ELSE s4
      IN  Slice(s5.all, 0, target_count)

\* target_count of run(); main() passes 100
TargetCounts == {1, 100}

\* What the remote service and random.sample may answer for a profile
ApiAnswers(liked, approved) ==
    [outage : 0..5,
     sample : Permutations(1..Len(TopArtistIds(liked, approved)))]

-----------------------------------------------------------------------------
(* The songs, files and ledgers the checks range over *)

MaxPool == 2        \* longest candidate pool handed to the Matcher
MaxBatch == 3       \* longest Discovered batch handed to the classifier
MaxSignal == 2      \* most tracks in the approval playlists
MaxLedger == 2      \* longest ledger a merge starts from
MaxPlaylist == 1    \* most tracks the user puts on a playlist between two cycles
MaxApproved == 2    \* no classification cycle makes the Approved ledger longer

\* "{title} - {artist}.mp3"
Mp3Name(m) == FilePattern(m) \o <<".", "mp3">>

FileNamePool ==
    {Mp3Name(Catalog[id]) : id \in TrackIds} \cup {<<"i", ".", "mp3">>}

Thresholds == {<<0, 1>>, <<1, 2>>, DefaultThreshold, <<1, 1>>}

-----------------------------------------------------------------------------
(* Values of the variables a specification does not use *)

FileNames ==
    {"liked", "liked_root", "approved", "discovered", "rejected",
     "liked_backup", "liked_root_backup", "approved_backup", "approved_backup2"}

NoLedgers == [f \in FileNames |-> NoFile]

NoTracks == [library |-> <<>>, ipod |-> <<>>]

NoLocals == [script |-> "none"]

\* discovered/ in the order glob lists it; library/ and staging/ by name
NoMedia == [discovered |-> <<>>, library |-> {}, staging |-> {}]

WorkflowIdle ==
    /\ files = NoLedgers
    /\ playlist = NoTracks
    /\ pc = "idle"
    /\ mem = NoLocals
    /\ everClassified = {}
    /\ dirs = NoMedia

PureIdle == inp = <<>> /\ out = <<>>

-----------------------------------------------------------------------------
(* Spec: the scripts of the workflow run one at a time on the ledger files.
   A script is cut into steps at its file writes.  The ledger steps do not
   read the media directories, and the stage transitions on the directories
   (integrate_approved_songs, handle_rejected_songs) read no ledger file and
   catch their own failures: they are followed in SpecStage, for every list
   of approved or rejected records run can hand them. *)

\* The Liked ledger as SpotifySync left it, and an older copy of it in the
\* working directory (process_approved_songs and complete_approved_metadata
\* read ./liked_songs_metadata.json, the others data/spotify/...)
Init ==
    /\ \E l \in {<<CatalogSong("t2")>>, <<CatalogSong("t3")>>} :
       \E r \in {NoFile, File(l)} :
          files = [NoLedgers EXCEPT !.liked = File(l), !.liked_root = r]
    /\ playlist = NoTracks
    /\ pc = "idle"
    /\ mem = NoLocals
    /\ everClassified = {}
    /\ dirs = NoMedia
    /\ PureIdle

\* The tracks the user may put on an approval playlist
PlaylistEntries ==
    {[title |-> <<"a", "b">>, artist |-> <<"c">>],
     [title |-> <<"d">>, artist |-> <<"d">>]}

\* The user adds a track to an approval playlist, in iTunes or on the iPod
UserAddsTrack ==
    /\ pc = "idle"
    /\ \E src \in {"library", "ipod"}, e \in PlaylistEntries :
          /\ Len(playlist[src]) < MaxPlaylist
          /\ playlist' = [playlist EXCEPT ![src] = Append(@, e)]
    /\ UNCHANGED <<dirs, files, pc, mem, everClassified, inp, out>>

\* MusicDiscovery.run: load the ledgers, generate, convert and save the batch;
\* without recommendations it returns before writing
DiscoveryRun ==
    /\ pc = "idle"
    /\ LET liked == LoadedList(files.liked)
           approved == LoadedList(files.approved)
           discovered == LoadedList(files.discovered)
           rejected == LoadedList(files.rejected)
       IN  \E target_count \in TargetCounts, api \in ApiAnswers(liked, approved) :
             LET recommendations ==
                     generate_recommendations(liked, approved,
                         ExcludedTrackIds(liked, approved, discovered, rejected),
                         api, target_count)
                 metadata_list == [k \in 1..Len(recommendations) |->
                                      CatalogSong(recommendations[k])]
             IN  /\ recommendations # <<>>
                 /\ files' = [files EXCEPT !.discovered = File(metadata_list)]
    /\ UNCHANGED <<dirs, playlist, pc, mem, everClassified, inp, out>>

\* iTunesIntegrator.run up to update_metadata_files: read the playlists,
\* load the Discovered ledger, classify.  It returns (0, 0) without tracks
\* or without discovered records, and raises without the ledger file or
\* when classify_songs raises.
RunStart ==
    /\ pc = "idle"
    /\ Len(LoadedList(files.approved)) + Len(LoadedList(files.discovered)) <= MaxApproved
    /\ \E use_ipod \in BOOLEAN :
         LET on_the_go_tracks == playlist[IF use_ipod THEN "ipod" ELSE "library"]
             ended(how) == [script |-> "run", use_ipod |-> use_ipod, outcome |-> how,
                            on_the_go_tracks |-> on_the_go_tracks,
                            discovered_before |-> files.discovered,
                            rejected_before |-> files.rejected,
                            approved |-> <<>>, rejected |-> <<>>]
         IN  IF on_the_go_tracks = <<>>
             THEN pc' = "run_done" /\ mem' = ended("no tracks")
             ELSE IF files.discovered = NoFile
             THEN pc' = "run_done" /\ mem' = ended("raised")
             ELSE IF LoadedList(files.discovered) = <<>>
             THEN pc' = "run_done" /\ mem' = ended("no metadata")
             ELSE LET c == classify_songs(LoadedList(files.discovered), on_the_go_tracks)
                  IN  IF c.raised
                      THEN pc' = "run_done" /\ mem' = ended("raised")
                      ELSE /\ pc' = "run_write_approved"
                           /\ mem' = [ended("complete") EXCEPT
                                          !.approved = c.approved,
                                          !.rejected = c.rejected]
    /\ UNCHANGED <<dirs, files, playlist, everClassified, inp, out>>

\* update_metadata_files, first write: the Approved ledger with the approved
\* records appended
RunWriteApproved ==
    /\ pc = "run_write_approved"
    /\ files' = IF mem.approved # <<>>
                THEN [files EXCEPT !.approved = File(LoadedList(@) \o mem.approved)]
                ELSE files
    /\ pc' = "run_write_rejected"
    /\ UNCHANGED <<dirs, playlist, mem, everClassified, inp, out>>

\* (update_metadata_files leaving the Rejected ledger as it is)
RunWriteRejectedNothing ==
    /\ pc = "run_write_rejected"
    /\ pc' = "run_unlink_discovered"
    /\ UNCHANGED <<dirs, files, playlist, mem, everClassified, inp, out>>

\* second write: the Rejected ledger with the rejected records appended
RunWriteRejected ==
    /\ pc = "run_write_rejected"
    /\ files' = IF mem.rejected # <<>>
                THEN [files EXCEPT !.rejected = File(LoadedList(@) \o mem.rejected)]
                ELSE files
    /\ pc' = "run_unlink_discovered"
    /\ UNCHANGED <<dirs, playlist, mem, everClassified, inp, out>>

\* last: the Discovered ledger is deleted; its records have been classified
RunUnlinkDiscovered ==
    /\ pc = "run_unlink_discovered"
    /\ files' = [files EXCEPT !.discovered = NoFile]
    /\ everClassified' = everClassified \cup TrackIdsOf(mem.approved \o mem.rejected)
    /\ pc' = "run_clear_playlist"
    /\ UNCHANGED <<dirs, playlist, mem, inp, out>>

\* clear_on_the_go_playlist: the tracks of the playlists of the iTunes
\* library source are deleted
RunClearPlaylist ==
    /\ pc = "run_clear_playlist"
    /\ playlist' = [playlist EXCEPT !.library = <<>>]
    /\ pc' = "run_done"
    /\ UNCHANGED <<dirs, files, mem, everClassified, inp, out>>

\* run returns (or its exception leaves it)
RunReturn ==
    /\ pc = "run_done"
    /\ pc' = "idle"
    /\ mem' = NoLocals
    /\ UNCHANGED <<dirs, files, playlist, everClassified, inp, out>>

\* What a search of the remote catalog for a song's title and artist may
\* give: nothing, or the metadata of a release of that song
SearchAnswers(song) ==
    {None} \cup
    {Some(CatalogSong(id)) : id \in
        {t \in TrackIds : normalize_string(SongPattern(Catalog[t]))
                            = normalize_string(SongPattern(song))}}

\* The loop over the approved songs: the metadata found, or the song itself
EnrichedLists(approved_songs) ==
    {e \in [1..Len(approved_songs) -> {CatalogSong(id) : id \in TrackIds}
                                      \cup Range(approved_songs)] :
        \A k \in 1..Len(approved_songs) :
            \/ Some(e[k]) \in SearchAnswers(approved_songs[k])
            \/ e[k] = approved_songs[k]}

\* enrich_approved_metadata up to its first write.  The script is followed on
\* its first run, while its backup file does not exist (as are
\* process_approved_songs and complete_approved_metadata below).
EnrichStart ==
    /\ pc = "idle"
    /\ files.approved # NoFile
    /\ files.approved_backup = NoFile
    /\ \E enriched_songs \in EnrichedLists(LoadedList(files.approved)) :
          mem' = [script |-> "enrich", approved_songs |-> LoadedList(files.approved),
                  enriched_songs |-> enriched_songs]
    /\ pc' = "enrich_backup_approved"
    /\ UNCHANGED <<dirs, files, playlist, everClassified, inp, out>>

EnrichBackupApproved ==
    /\ pc = "enrich_backup_approved"
    /\ files' = [files EXCEPT !.approved_backup = File(mem.approved_songs)]
    /\ pc' = "enrich_write_approved"
    /\ UNCHANGED <<dirs, playlist, mem, everClassified, inp, out>>

EnrichWriteApproved ==
    /\ pc = "enrich_write_approved"
    /\ files' = [files EXCEPT !.approved = File(mem.enriched_songs)]
    /\ pc' = "enrich_backup_liked"
    /\ UNCHANGED <<dirs, playlist, mem, everClassified, inp, out>>

\* the Liked ledger is loaded and merged in memory, then its file is copied
\* to the backup if it exists
EnrichBackupLiked ==
    /\ pc = "enrich_backup_liked"
    /\ mem' = [script |-> "enrich", approved_songs |-> mem.approved_songs,
               enriched_songs |-> mem.enriched_songs,
               merged |-> MergeIntoLiked(LoadedList(files.liked), mem.enriched_songs)]
    /\ files' = IF files.liked # NoFile
                THEN [files EXCEPT !.liked_backup = files.liked]
                ELSE files
    /\ pc' = "enrich_write_liked"
    /\ UNCHANGED <<dirs, playlist, everClassified, inp, out>>

EnrichWriteLiked ==
    /\ pc = "enrich_write_liked"
    /\ files' = [files EXCEPT !.liked = File(mem.merged.liked_songs)]
    /\ pc' = "idle"
    /\ mem' = NoLocals
    /\ UNCHANGED <<dirs, playlist, everClassified, inp, out>>

\* process_approved_songs.main up to its first write: fetch the metadata,
\* load ./liked_songs_metadata.json and merge in memory
ProcessStart ==
    /\ pc = "idle"
    /\ files.approved # NoFile
    /\ files.liked_root # NoFile
    /\ files.liked_root_backup = NoFile
    /\ \E enriched_metadata \in EnrichedLists(LoadedList(files.approved)) :
          mem' = [script |-> "process",
                  merged |-> MergeIntoLiked(LoadedList(files.liked_root), enriched_metadata)]
    /\ pc' = "process_backup"
    /\ UNCHANGED <<dirs, files, playlist, everClassified, inp, out>>

\* (the script going on to the ledger write without a backup)
ProcessBackupNothing ==
    /\ pc = "process_backup"
    /\ pc' = "process_write"
    /\ UNCHANGED <<dirs, files, playlist, mem, everClassified, inp, out>>

\* the backup file is written from the list in memory
ProcessBackup ==
    /\ pc = "process_backup"
    /\ files' = [files EXCEPT !.liked_root_backup = File(mem.merged.liked_songs)]
    /\ pc' = "process_write"
    /\ UNCHANGED <<dirs, playlist, mem, everClassified, inp, out>>

ProcessWrite ==
    /\ pc = "process_write"
    /\ files' = [files EXCEPT !.liked_root = File(mem.merged.liked_songs)]
    /\ pc' = "idle"
    /\ mem' = NoLocals
    /\ UNCHANGED <<dirs, playlist, everClassified, inp, out>>

\* The loop of complete_approved_metadata: the best liked song at >= 0.75,
\* or the approved song itself
CompletedSongs(approved_songs, liked_songs) ==
    [k \in 1..Len(approved_songs) |->
        LET found == find_matching_metadata(approved_songs[k], liked_songs, DefaultThreshold)
        IN  IF found[1] # None THEN found[1][1] ELSE approved_songs[k]]

CompleteStart ==
    /\ pc = "idle"
    /\ files.approved # NoFile
    /\ files.liked_root # NoFile
    /\ files.approved_backup2 = NoFile
    /\ mem' = [script |-> "complete", approved_songs |-> LoadedList(files.approved),
               completed_songs |-> CompletedSongs(LoadedList(files.approved), LoadedList(files.liked_root))]
    /\ pc' = "complete_backup"
    /\ UNCHANGED <<dirs, files, playlist, everClassified, inp, out>>

CompleteBackup ==
    /\ pc = "complete_backup"
    /\ files' = [files EXCEPT !.approved_backup2 = File(mem.approved_songs)]
    /\ pc' = "complete_write"
    /\ UNCHANGED <<dirs, playlist, mem, everClassified, inp, out>>

CompleteWrite ==
    /\ pc = "complete_write"
    /\ files' = [files EXCEPT !.approved = File(mem.completed_songs)]
    /\ pc' = "idle"
    /\ mem' = NoLocals
    /\ UNCHANGED <<dirs, playlist, everClassified, inp, out>>

Next ==
    \/ UserAddsTrack
    \/ DiscoveryRun
    \/ RunStart \/ RunWriteApproved \/ RunWriteRejected
    \/ RunUnlinkDiscovered \/ RunClearPlaylist \/ RunReturn
    \/ EnrichStart \/ EnrichBackupApproved \/ EnrichWriteApproved
    \/ EnrichBackupLiked \/ EnrichWriteLiked
    \/ ProcessStart \/ ProcessBackup \/ ProcessWrite
    \/ CompleteStart \/ CompleteBackup \/ CompleteWrite

Spec == Init /\ [][Next]_vars

-----------------------------------------------------------------------------
(* SpecMatch: the Matcher applied to every query, pool and threshold *)

MatchInputs ==
    [fn : {"find_matching_file"}, query : {Catalog[id] : id \in TrackIds},
     pool : SeqsUpTo(FileNamePool, MaxPool), threshold : Thresholds]
    \cup
    [fn : {"find_matching_metadata"}, query : {Catalog[id] : id \in TrackIds},
     pool : SeqsUpTo({CatalogSong(id) : id \in TrackIds}
                     \cup {Song("t3", <<"i">>, <<"i">>),
                           Song("t3", <<"a", "b">>, <<"d">>)}, MaxPool),
     threshold : Thresholds]

InitMatch == WorkflowIdle /\ inp \in MatchInputs /\ out = <<>>

CallFindMatchingFile ==
    /\ out = <<>>
    /\ inp.fn = "find_matching_file"
    /\ out' = find_matching_file(inp.query, inp.pool, inp.threshold)
    /\ UNCHANGED <<dirs, files, playlist, pc, mem, everClassified, inp>>

CallFindMatchingMetadata ==
    /\ out = <<>>
    /\ inp.fn = "find_matching_metadata"
    /\ out' = find_matching_metadata(inp.query, inp.pool, inp.threshold)
    /\ UNCHANGED <<dirs, files, playlist, pc, mem, everClassified, inp>>

NextMatch == CallFindMatchingFile \/ CallFindMatchingMetadata

SpecMatch == InitMatch /\ [][NextMatch]_vars

\* The similarity of the query to one candidate, as each Matcher computes it
CandidateScore(i, c) ==
    IF i.fn = "find_matching_file"
    THEN similarity_ratio(FilePattern(i.query), Stem(c))
    ELSE similarity_ratio(normalize_string(SongPattern(i.query)),
                          normalize_string(SongPattern(c)))

\* The largest similarity in the pool, 0.0 for an empty pool
MaxScore(i) ==
    IF i.pool = <<>> THEN ZeroScore
    ELSE LET S == {CandidateScore(i, c) : c \in Range(i.pool)}
         IN  CHOOSE s \in S : \A t \in S : ScoreGE(s, t)

\* C10: the Matcher returns (c, s) with s the maximum similarity over the
\* pool; c is a candidate attaining s when s >= threshold, and None when
\* s < threshold.  (An empty pool has no candidate to return; the claim is
\* read on the pools that have one.)
C10_MatcherResult ==
    out # <<>> =>
        /\ out[2] = MaxScore(inp)
        /\ (inp.pool # <<>> /\ ScoreGE(out[2], inp.threshold)) =>
              /\ out[1] # None
              /\ out[1][1] \in Range(inp.pool)
              /\ CandidateScore(inp, out[1][1]) = out[2]
        /\ ~ScoreGE(out[2], inp.threshold) => out[1] = None

\* The positions of the pool whose candidate attains the maximum similarity
MaxPositions(i) ==
    {k \in 1..Len(i.pool) : CandidateScore(i, i.pool[k]) = MaxScore(i)}

\* C11: when several candidates of the pool attain the maximum similarity
\* and that maximum is >= threshold, the Matcher returns the one that comes
\* first in pool order.
C11_TieBreakFirst ==
    (/\ out # <<>>
     /\ Cardinality(MaxPositions(inp)) >= 2
     /\ ScoreGE(MaxScore(inp), inp.threshold)) =>
        out[1] = Some(inp.pool[SetMin(MaxPositions(inp))])

\* C12: given an empty pool the Matcher returns (None, 0.0) for every
\* threshold, threshold 0.0 included.
C12_EmptyPool ==
    (out # <<>> /\ inp.pool = <<>>) => out = <<None, ZeroScore>>

\* the Matcher has answered for an empty pool at threshold 0.0
C12_Witness ==
    /\ out # <<>>
    /\ inp.pool = <<>>
    /\ inp.threshold = ZeroScore
    /\ out[1] = None

\* The Matcher of the call, at another threshold
MatcherAt(i, threshold) ==
    IF i.fn = "find_matching_file"
    THEN find_matching_file(i.query, i.pool, threshold)
    ELSE find_matching_metadata(i.query, i.pool, threshold)

\* C13: for thresholds t1 < t2, if the Matcher returns a candidate at t2 it
\* returns the same candidate with the same score at t1.
C13_MonotoneInThreshold ==
    (out # <<>> /\ out[1] # None) =>
        \A t1 \in Thresholds :
            (ScoreGT(inp.threshold, t1)) => MatcherAt(inp, t1) = out

\* a candidate accepted at the default threshold with a score below 1.0,
\* and a lower threshold to compare with
C13_Witness ==
    /\ out # <<>>
    /\ out[1] # None
    /\ inp.threshold = DefaultThreshold
    /\ ~ScoreGE(out[2], <<1, 1>>)
    /\ \E t1 \in Thresholds : ScoreGT(inp.threshold, t1)

-----------------------------------------------------------------------------
(* SpecClassify: classify_songs applied to every batch and approval signal *)

\* Playlist tracks as the device reports them (title, artist): the song of
\* t1/t2, a track scoring exactly 0.75 against it, the song of t3, and a
\* track that resembles nothing.
SignalEntries ==
    {[title |-> <<"a", "b">>, artist |-> <<"c">>],
     [title |-> <<"a", "b">>, artist |-> <<"d">>],
     [title |-> <<"d">>, artist |-> <<"d">>],
     [title |-> <<"i">>, artist |-> <<"i">>]}

\* Discovered records, among them two that lack a field
ClassifyRecords ==
    {CatalogSong(id) : id \in TrackIds}
    \cup {Song("t1", Absent, <<"c">>), Song("t3", <<"d">>, Absent)}

ClassifyInputs ==
    [discovered : SeqsUpTo(ClassifyRecords, MaxBatch),
     signal : SeqsUpTo(SignalEntries, MaxSignal)]

InitClassify == WorkflowIdle /\ inp \in ClassifyInputs /\ out = <<>>

CallClassifySongs ==
    /\ out = <<>>
    /\ out' = classify_songs(inp.discovered, inp.signal)
    /\ UNCHANGED <<dirs, files, playlist, pc, mem, everClassified, inp>>

NextClassify == CallClassifySongs

SpecClassify == InitClassify /\ [][NextClassify]_vars

\* C6: classify_songs returns (approved, rejected) in which every Discovered
\* record appears in exactly one of the two lists, exactly as often as it is
\* in the batch, so the two lengths add up to the batch size.
C6_ClassifyPartitions ==
    (out # <<>> /\ ~out.raised) =>
        /\ Len(out.approved) + Len(out.rejected) = Len(inp.discovered)
        /\ Range(out.approved) \cap Range(out.rejected) = {}
        /\ \A r \in Range(inp.discovered) \cup Range(out.approved) \cup Range(out.rejected) :
              Count(out.approved, r) + Count(out.rejected, r) = Count(inp.discovered, r)

C6_Witness ==
    /\ out # <<>> /\ ~out.raised
    /\ Len(inp.discovered) = 3
    /\ Len(out.approved) = 1 /\ Len(out.rejected) = 2

\* The claim's criterion: some signal entry's normalized pattern scores
\* >= 0.75 against the record's normalized pattern
MeetsSignal(r, signal) ==
    \E e \in Range(signal) :
        ScoreGE(similarity_ratio(normalize_string(SongPattern(r)),
                                 normalize_string(SongPattern(e))), <<3, 4>>)

Reorderings(s) ==
    {[k \in 1..Len(s) |-> s[p[k]]] : p \in Permutations(1..Len(s))}

\* C7: a record is classified Approved iff some approval-signal entry scores
\* >= 0.75 against it, otherwise Rejected; reordering the signal entries
\* does not change the outcome.
C7_ApprovedIffSignalMatch ==
    (out # <<>> /\ ~out.raised) =>
        /\ \A r \in Range(inp.discovered) :
              /\ r \in Range(out.approved) <=> MeetsSignal(r, inp.signal)
              /\ r \in Range(out.rejected) <=> ~MeetsSignal(r, inp.signal)
        /\ \A s \in Reorderings(inp.signal) :
              classify_songs(inp.discovered, s) = out

\* a record approved by a score of exactly 0.75, next to a rejected one,
\* under a signal of two different entries
C7_Witness ==
    /\ out # <<>> /\ ~out.raised
    /\ inp.signal = <<[title |-> <<"i">>, artist |-> <<"i">>],
                      [title |-> <<"a", "b">>, artist |-> <<"d">>]>>
    /\ CatalogSong("t1") \in Range(out.approved)
    /\ CatalogSong("t3") \in Range(out.rejected)

\* C9: a record that lacks the title or the artist is put in the rejected
\* list and the remaining records are classified; classify_songs does not
\* raise and drops no record.
C9_FailureIsRejected ==
    out # <<>> =>
        /\ ~out.raised
        /\ \A r \in Range(inp.discovered) :
              ~HasTitleArtist(r) => r \in Range(out.rejected)
        /\ Len(out.approved) + Len(out.rejected) = Len(inp.discovered)

-----------------------------------------------------------------------------
(* SpecMerge: a batch merged into a ledger, and then merged again *)

\* Records with and without a canonical ID
MergeRecords ==
    {CatalogSong(id) : id \in TrackIds} \cup {Song(NoId, <<"a", "b">>, <<"c">>)}

MergeInputs ==
    [ledger : SeqsUpTo(MergeRecords, MaxLedger),
     batch : SeqsUpTo(MergeRecords, MaxBatch)]

InitMerge == WorkflowIdle /\ inp \in MergeInputs /\ out = <<>>

\* the first merge of the batch into the ledger
MergeOnce ==
    /\ out = <<>>
    /\ out' = <<MergeIntoLiked(inp.ledger, inp.batch)>>
    /\ UNCHANGED <<dirs, files, playlist, pc, mem, everClassified, inp>>

\* the same batch merged into the ledger the first merge saved
MergeAgain ==
    /\ Len(out) = 1
    /\ out' = Append(out, MergeIntoLiked(out[1].liked_songs, inp.batch))
    /\ UNCHANGED <<dirs, files, playlist, pc, mem, everClassified, inp>>

NextMerge == MergeOnce \/ MergeAgain

SpecMerge == InitMerge /\ [][NextMerge]_vars

SecondMergeAllDuplicates ==
    /\ out[2].added_count = 0
    /\ out[2].duplicate_count = Len(inp.batch)
    /\ out[2].liked_songs = out[1].liked_songs

\* C1 as stated: for every batch and every ledger, the second merge of the
\* same batch adds nothing, counts the whole batch as duplicates and leaves
\* the ledger unchanged.
C1_MergeIdempotentAnyBatch == Len(out) = 2 => SecondMergeAllDuplicates

\* C1 amended: the same, for every batch all of whose records carry a
\* canonical ID.
C1_MergeIdempotentWithIds ==
    (Len(out) = 2 /\ \A r \in Range(inp.batch) : r.track_id # NoId)
        => SecondMergeAllDuplicates

\* three new records into an empty ledger: (3, 0), then (0, 3)
C1_Witness ==
    /\ Len(out) = 2
    /\ inp.ledger = <<>>
    /\ inp.batch = <<CatalogSong("t1"), CatalogSong("t2"), CatalogSong("t3")>>
    /\ out[1].added_count = 3 /\ out[1].duplicate_count = 0
    /\ out[2].added_count = 0 /\ out[2].duplicate_count = 3

\* The records of a list that carry no canonical ID
WithoutId(songs) == SelectSeq(songs, LAMBDA r : r.track_id = NoId)

\* What one merge of the batch into a ledger must show for the records
\* without canonical ID
AppendsAllWithoutId(ledger, merged) ==
    /\ WithoutId(merged.liked_songs) = WithoutId(ledger) \o WithoutId(inp.batch)
    /\ merged.added_count >= Len(WithoutId(inp.batch))
    /\ merged.duplicate_count <= Len(inp.batch) - Len(WithoutId(inp.batch))

\* C16: every new record without track_id is appended to the ledger and
\* counted in added_count, whatever the ledger contains, also when an
\* identical record is already in it.
C16_NoIdNeverDeduplicated ==
    /\ Len(out) >= 1 => AppendsAllWithoutId(inp.ledger, out[1])
    /\ Len(out) = 2 => AppendsAllWithoutId(out[1].liked_songs, out[2])

\* a record without ID merged into a ledger that already holds it twice,
\* next to a record with an ID that is counted as a duplicate
C16_Witness ==
    /\ Len(out) = 2
    /\ Len(WithoutId(inp.ledger)) >= 1
    /\ Len(WithoutId(inp.batch)) = 1
    /\ Len(WithoutId(out[2].liked_songs)) = Len(WithoutId(inp.ledger)) + 2
    /\ out[2].added_count = 1
    /\ out[2].duplicate_count >= 1

\* No canonical ID occurs twice in the list
UniqueIds(songs) ==
    \A j, k \in 1..Len(songs) :
        (j # k /\ songs[j].track_id = songs[k].track_id) => songs[j].track_id = NoId

\* What one merge of the batch into a ledger must keep
MergeKeepsLedger(ledger, merged) ==
    /\ UniqueIds(ledger) => UniqueIds(merged.liked_songs)
    /\ merged.added_count + merged.duplicate_count = Len(inp.batch)
    /\ Len(merged.liked_songs) = Len(ledger) + merged.added_count
    /\ SubSeq(merged.liked_songs, 1, Len(ledger)) = ledger

\* C30: a merge into a ledger without repeated canonical IDs leaves none
\* repeated, also when the batch repeats one; added_count + duplicate_count
\* is the batch size, the ledger grows by added_count, and the records it
\* had stay as its prefix.
C30_MergeKeepsIdsUnique ==
    /\ Len(out) >= 1 => MergeKeepsLedger(inp.ledger, out[1])
    /\ Len(out) = 2 => MergeKeepsLedger(out[1].liked_songs, out[2])

\* a batch with the same new canonical ID twice: appended once, counted
\* once as duplicate
C30_Witness ==
    /\ Len(out) >= 1
    /\ UniqueIds(inp.ledger) /\ inp.ledger # <<>>
    /\ \E j, k \in 1..Len(inp.batch) :
          /\ j < k
          /\ inp.batch[j].track_id = inp.batch[k].track_id
          /\ inp.batch[j].track_id \notin TrackIdsOf(inp.ledger) \cup {NoId}
    /\ out[1].added_count >= 1
    /\ out[1].duplicate_count >= 1

-----------------------------------------------------------------------------
(* SpecDiscover: generate_recommendations after load_existing_songs, for
   every content of the four ledgers and every answer of the remote service *)

DiscoverInputs ==
    {i \in [liked : SeqsUpTo(MergeRecords, MaxLedger),
            approved : SeqsUpTo(MergeRecords, 1),
            discovered : SeqsUpTo(MergeRecords, 1),
            rejected : SeqsUpTo(MergeRecords, 1),
            target_count : TargetCounts,
            api : [outage : 0..5,
                   sample : UNION {Permutations(1..n) : n \in 0..Cardinality(ArtistIds)}]] :
        i.api \in ApiAnswers(i.liked, i.approved)}

InitDiscover == WorkflowIdle /\ inp \in DiscoverInputs /\ out = <<>>

CallGenerateRecommendations ==
    /\ out = <<>>
    /\ out' = [recommendations |->
                  generate_recommendations(inp.liked, inp.approved,
                      ExcludedTrackIds(inp.liked, inp.approved, inp.discovered, inp.rejected),
                      inp.api, inp.target_count)]
    /\ UNCHANGED <<dirs, files, playlist, pc, mem, everClassified, inp>>

NextDiscover == CallGenerateRecommendations

SpecDiscover == InitDiscover /\ [][NextDiscover]_vars

\* C3: no track generate_recommendations returns has a canonical ID that is
\* in the Liked, Approved, Discovered or Rejected ledger as loaded, and no
\* canonical ID occurs twice in the batch.
C3_NeverProposesKnownSong ==
    out # <<>> =>
        /\ Range(out.recommendations)
              \cap TrackIdsOf(inp.liked \o inp.approved \o inp.discovered \o inp.rejected) = {}
        /\ \A j, k \in 1..Len(out.recommendations) :
              j # k => out.recommendations[j] # out.recommendations[k]

\* a batch of two found by the third strategy after the first two failed,
\* which the fourth strategy and the fill step meet again, with a known
\* song left out
C3_Witness ==
    /\ out # <<>>
    /\ Len(out.recommendations) = 2
    /\ inp.api.outage = 2
    /\ inp.target_count > 2
    /\ TrackIdsOf(inp.liked \o inp.approved \o inp.discovered \o inp.rejected) # {}

-----------------------------------------------------------------------------
(* SpecStage: the stage transitions of the media artifacts.
   integrate_approved_songs and handle_rejected_songs on the directories
   discovered/, library/ and staging/, and MetadataEmbedder.process_batch on
   the files of discovered/, for every batch and every directory content.
   A copy or a delete may raise (the loop body's except clause counts it). *)

MaxDir == 2         \* most files in discovered/
MaxStageBatch == 2  \* longest list of approved or rejected records

\* the literal 0.75 of the two loops, and process_batch's default
StageThreshold == <<3, 4>>

StageFileNames == FileNamePool \cup {<<"a", "b", " ", "-", " ", "d", ".", "mp3">>}

\* glob's listings of discovered/: distinct names, in any order
DirListings ==
    {l \in SeqsUpTo(StageFileNames, MaxDir) :
        \A j, k \in 1..Len(l) : j # k => l[j] # l[k]}

StageInputs ==
    [op : {"integrate", "reject", "embed"},
     batch : SeqsUpTo({CatalogSong(id) : id \in TrackIds}, MaxStageBatch),
     discovered : DirListings,
     library : {{}, {Mp3Name(Catalog["t3"])}}]

InitStage ==
    /\ files = NoLedgers
    /\ playlist = NoTracks
    /\ pc = "idle"
    /\ mem = NoLocals
    /\ everClassified = {}
    /\ inp \in StageInputs
    /\ dirs = [discovered |-> inp.discovered, library |-> inp.library, staging |-> {}]
    /\ out = <<>>

\* The locals of a batch: the loop position, the counters, the file found,
\* and as history the files the batch has dealt with and the number of
\* records for which no file matched
StageLocals(op) ==
    [script |-> op, k |-> 1, successful |-> 0, failed |-> 0, deleted |-> 0,
     source_file |-> None, handled |-> {}, missed |-> 0]

\* for mp3_file in mp3_files: if similarity_ratio(...) >= 0.75: break
FirstFit(song_name, mp3_files) ==
    LET hits == {k \in 1..Len(mp3_files) :
                    ScoreGE(similarity_ratio(song_name, Stem(mp3_files[k])),
                            StageThreshold)}
    IN  IF hits = {} THEN None ELSE Some(mp3_files[SetMin(hits)])

\* (shutil.move in place of shutil.copy2)
CopyToLibraryByMove(d, f) ==
    [d EXCEPT !.library = @ \cup {f},
              !.discovered = SelectSeq(@, LAMBDA x : x # f)]

\* shutil.copy2(source_file, LIBRARY_DIR / source_file.name)
CopyToLibrary(d, f) == [d EXCEPT !.library = @ \cup {f}]

\* shutil.copy2(source_file, STAGING_DIR / source_file.name)
CopyToStaging(d, f) == [d EXCEPT !.staging = @ \cup {f}]

\* source_file.unlink()
Unlink(d, f) == [d EXCEPT !.discovered = SelectSeq(@, LAMBDA x : x # f)]

\* (a rejected file moved into staging/ in place of deleted)
DeleteRejectedByMove(d, f) ==
    [d EXCEPT !.discovered = SelectSeq(@, LAMBDA x : x # f),
              !.staging = @ \cup {f}]

\* handle_rejected_songs: source_file.unlink()
DeleteRejected(d, f) == Unlink(d, f)

\* (a missing file ending the loop)
NotFoundAborts(m) ==
    [m EXCEPT !.failed = @ + 1, !.missed = @ + 1, !.k = Len(inp.batch) + 1]

\* logger.warning("MP3 not found ..."); failed += 1; continue
NotFound(m) == [m EXCEPT !.failed = @ + 1, !.missed = @ + 1, !.k = @ + 1]

\* except Exception: failed += 1
Failed(m) == [m EXCEPT !.failed = @ + 1, !.k = @ + 1, !.source_file = None]

IntegrateStart ==
    /\ pc = "idle" /\ out = <<>>
    /\ inp.op = "integrate"
    /\ mem' = StageLocals("integrate")
    /\ IF inp.batch = <<>>
       THEN pc' = "done" /\ out' = <<0>>
       ELSE pc' = "integrate_find" /\ out' = out
    /\ UNCHANGED <<files, playlist, everClassified, dirs, inp>>

\* the head of the loop body: the listing of discovered/ and the search
IntegrateFind ==
    /\ pc = "integrate_find"
    /\ IF mem.k > Len(inp.batch)
       THEN pc' = "done" /\ out' = <<mem.successful>> /\ mem' = mem
       ELSE LET f == FirstFit(FilePattern(inp.batch[mem.k]), dirs.discovered)
            IN  /\ out' = out
                /\ IF f = None
                   THEN pc' = pc /\ mem' = NotFound(mem)
                   ELSE /\ pc' = "integrate_copy_library"
                        /\ mem' = [mem EXCEPT !.source_file = f]
    /\ UNCHANGED <<files, playlist, everClassified, dirs, inp>>

IntegrateCopyLibrary ==
    /\ pc = "integrate_copy_library"
    /\ \/ /\ dirs' = CopyToLibrary(dirs, mem.source_file[1])
          /\ pc' = "integrate_copy_staging"
          /\ mem' = mem
       \/ /\ dirs' = dirs
          /\ pc' = "integrate_find"
          /\ mem' = Failed(mem)
    /\ UNCHANGED <<files, playlist, everClassified, inp, out>>

IntegrateCopyStaging ==
    /\ pc = "integrate_copy_staging"
    /\ \/ /\ dirs' = CopyToStaging(dirs, mem.source_file[1])
          /\ pc' = "integrate_unlink"
          /\ mem' = mem
       \/ /\ dirs' = dirs
          /\ pc' = "integrate_find"
          /\ mem' = Failed(mem)
    /\ UNCHANGED <<files, playlist, everClassified, inp, out>>

IntegrateUnlink ==
    /\ pc = "integrate_unlink"
    /\ \/ /\ dirs' = Unlink(dirs, mem.source_file[1])
          /\ mem' = [mem EXCEPT !.successful = @ + 1, !.k = @ + 1,
                                !.source_file = None,
                                !.handled = @ \cup {mem.source_file[1]}]
       \/ /\ dirs' = dirs
          /\ mem' = Failed(mem)
    /\ pc' = "integrate_find"
    /\ UNCHANGED <<files, playlist, everClassified, inp, out>>

RejectStart ==
    /\ pc = "idle" /\ out = <<>>
    /\ inp.op = "reject"
    /\ mem' = StageLocals("reject")
    /\ IF inp.batch = <<>>
       THEN pc' = "done" /\ out' = <<0>>
       ELSE pc' = "reject_find" /\ out' = out
    /\ UNCHANGED <<files, playlist, everClassified, dirs, inp>>

\* handle_rejected_songs keeps no counter of the files it did not find
RejectFind ==
    /\ pc = "reject_find"
    /\ IF mem.k > Len(inp.batch)
       THEN pc' = "done" /\ out' = <<mem.deleted>> /\ mem' = mem
       ELSE LET f == FirstFit(FilePattern(inp.batch[mem.k]), dirs.discovered)
            IN  /\ out' = out
                /\ IF f = None
                   THEN pc' = pc /\ mem' = [mem EXCEPT !.missed = @ + 1, !.k = @ + 1]
                   ELSE /\ pc' = "reject_unlink"
                        /\ mem' = [mem EXCEPT !.source_file = f]
    /\ UNCHANGED <<files, playlist, everClassified, dirs, inp>>

RejectUnlink ==
    /\ pc = "reject_unlink"
    /\ \/ /\ dirs' = DeleteRejected(dirs, mem.source_file[1])
          /\ mem' = [mem EXCEPT !.deleted = @ + 1, !.k = @ + 1,
                                !.source_file = None,
                                !.handled = @ \cup {mem.source_file[1]}]
       \/ /\ dirs' = dirs
          /\ mem' = [mem EXCEPT !.k = @ + 1, !.source_file = None]
    /\ pc' = "reject_find"
    /\ UNCHANGED <<files, playlist, everClassified, inp, out>>

\* process_batch on the files scan_mp3_files found in discovered/; without
\* files it returns ([], []) at once
EmbedStart ==
    /\ pc = "idle" /\ out = <<>>
    /\ inp.op = "embed"
    /\ IF dirs.discovered = <<>>
       THEN /\ pc' = "done" /\ out' = <<0, 0>>
            /\ mem' = [StageLocals("embed") EXCEPT !.missed = Len(inp.batch)]
       ELSE pc' = "embed_next" /\ out' = out /\ mem' = StageLocals("embed")
    /\ UNCHANGED <<files, playlist, everClassified, dirs, inp>>

\* one pass of process_batch's loop; successful and failed stand for the
\* lengths of the two lists, embed_metadata returns True or False
EmbedNext ==
    /\ pc = "embed_next"
    /\ IF mem.k > Len(inp.batch)
       THEN pc' = "done" /\ out' = <<mem.successful, mem.failed>> /\ mem' = mem
       ELSE LET found == find_matching_file(inp.batch[mem.k], dirs.discovered,
                                            StageThreshold)
            IN  /\ out' = out /\ pc' = pc
                /\ IF found[1] = None
                   THEN mem' = NotFound(mem)
                   ELSE \/ mem' = [mem EXCEPT !.successful = @ + 1, !.k = @ + 1,
                                              !.handled = @ \cup {found[1][1]}]
                        \/ mem' = Failed(mem)
    /\ UNCHANGED <<files, playlist, everClassified, dirs, inp>>

NextStage ==
    \/ IntegrateStart \/ IntegrateFind \/ IntegrateCopyLibrary
    \/ IntegrateCopyStaging \/ IntegrateUnlink
    \/ RejectStart \/ RejectFind \/ RejectUnlink
    \/ EmbedStart \/ EmbedNext

SpecStage == InitStage /\ [][NextStage]_vars

\* C17: integrate_approved_songs copies the file found into library/, then
\* into staging/, and deletes it from discovered/ only after both copies:
\* a file it has integrated is in library/ and staging/ and not in
\* discovered/, and every other file that was in discovered/ is still
\* there, also after a failed copy.
C17_ApprovedTransition ==
    mem.script = "integrate" =>
        /\ \A f \in mem.handled :
              f \in dirs.library /\ f \in dirs.staging /\ f \notin Range(dirs.discovered)
        /\ \A f \in Range(inp.discovered) \ mem.handled : f \in Range(dirs.discovered)
        /\ pc = "integrate_copy_staging" => mem.source_file[1] \in dirs.library
        /\ pc = "integrate_unlink" =>
              mem.source_file[1] \in dirs.library \cap dirs.staging

\* a batch that integrated one file and failed on the copy into staging/
\* of another, which is now in library/ and still in discovered/
C17_Witness ==
    /\ pc = "done"
    /\ mem.script = "integrate"
    /\ mem.handled # {}
    /\ mem.failed >= 1
    /\ \E f \in Range(dirs.discovered) : f \in dirs.library /\ f \notin dirs.staging

\* C18: the file integrate_approved_songs is about to copy, or
\* handle_rejected_songs is about to delete, is the Matcher's answer for the
\* record over the files of discovered/: the most similar file (the first
\* on ties), at a score >= 0.75.
C18_ActsOnBestMatch ==
    pc \in {"integrate_copy_library", "reject_unlink"} =>
        mem.source_file =
            find_matching_file(inp.batch[mem.k], dirs.discovered, StageThreshold)[1]

\* C19: handle_rejected_songs deletes from discovered/ the one file found
\* for each rejected record and makes no copy: library/ and staging/ stay
\* as they were, and discovered/ keeps, in their order, all files but the
\* ones deleted, one per record counted.
C19_RejectedFrame ==
    mem.script = "reject" =>
        /\ dirs.library = inp.library
        /\ dirs.staging = {}
        /\ dirs.discovered =
              SelectSeq(inp.discovered, LAMBDA x : x \notin mem.handled)
        /\ mem.handled \subseteq Range(inp.discovered)
        /\ Cardinality(mem.handled) = mem.deleted

\* a batch that deleted one file of two, next to a library that has a file
C19_Witness ==
    /\ pc = "done"
    /\ mem.script = "reject"
    /\ mem.deleted = 1
    /\ Len(inp.discovered) = 2
    /\ Len(dirs.discovered) = 1
    /\ dirs.library # {}

\* The records a finished batch has counted as failed or not found;
\* handle_rejected_songs returns the number of deleted files only
CountedFailed == IF mem.script = "reject" THEN 0 ELSE mem.failed

-----------------------------------------------------------------------------
(* SpecString: normalize_string and similarity_ratio applied to every string *)

MaxStr == 3         \* longest string normalised or compared

\* Letters of both cases, U+0130, a space and a hyphen for normalize_string;
\* three letters and a hyphen for similarity_ratio
NormalizeChars == {"a", "A", "Idot", " ", "-"}
SimilarityChars == {"a", "b", "c", "-"}

StringInputs ==
    [fn : {"normalize_string"}, a : SeqsUpTo(NormalizeChars, MaxStr), b : {<<>>}]
    \cup
    [fn : {"similarity_ratio"}, a : SeqsUpTo(SimilarityChars, MaxStr),
     b : SeqsUpTo(SimilarityChars, MaxStr)]

InitString == WorkflowIdle /\ inp \in StringInputs /\ out = <<>>

CallNormalizeString ==
    /\ out = <<>>
    /\ inp.fn = "normalize_string"
    /\ out' = <<normalize_string(inp.a)>>
    /\ UNCHANGED <<dirs, files, playlist, pc, mem, everClassified, inp>>

CallSimilarityRatio ==
    /\ out = <<>>
    /\ inp.fn = "similarity_ratio"
    /\ out' = <<similarity_ratio(inp.a, inp.b)>>
    /\ UNCHANGED <<dirs, files, playlist, pc, mem, everClassified, inp>>

NextString == CallNormalizeString \/ CallSimilarityRatio

SpecString == InitString /\ [][NextString]_vars

\* C27: normalize_string(normalize_string(s)) = normalize_string(s) for
\* every string s.
C27_NormalizeIdempotent ==
    (out # <<>> /\ inp.fn = "normalize_string") => normalize_string(out[1]) = out[1]

\* C28: similarity_ratio(a, b) = similarity_ratio(b, a) for all strings a, b.
C28_SimilaritySymmetric ==
    (out # <<>> /\ inp.fn = "similarity_ratio") =>
        out[1] = similarity_ratio(inp.b, inp.a)

-----------------------------------------------------------------------------
(* Properties of the workflow (Spec) *)

Liked == LoadedList(files.liked)
Approved == LoadedList(files.approved)
Discovered == LoadedList(files.discovered)
Rejected == LoadedList(files.rejected)

C4_NeverReentersDiscovered ==
    TrackIdsOf(Discovered) \cap everClassified = {}

\* C5: in every state of the files, no record is in the Discovered ledger
\* and also in the Approved or the Rejected ledger.
C5_DiscoveredExclusive ==
    Range(Discovered) \cap (Range(Approved) \cup Range(Rejected)) = {}

\* the Discovered ledger a finished cycle started from
DiscoveredBefore == LoadedList(mem.discovered_before)

\* the records of that ledger no signal entry matches are now in the
\* Rejected ledger and not in the Discovered ledger
UnmatchedEndRejected ==
    \A k \in 1..Len(DiscoveredBefore) :
        ~MeetsSignal(DiscoveredBefore[k], mem.on_the_go_tracks) =>
            /\ DiscoveredBefore[k] \in Range(Rejected)
            /\ DiscoveredBefore[k] \notin Range(Discovered)

\* C8 as stated: a cycle of run on a non-empty Discovered ledger ends with
\* every record that no signal entry matches at >= 0.75 in the Rejected ledger
\* and out of the Discovered ledger, for every signal, the empty one included.
C8_UnmatchedRejectedAnySignal ==
    (pc = "run_done" /\ DiscoveredBefore # <<>>) => UnmatchedEndRejected

\* C8 as the code has it: the same for every signal with at least one entry
\* (run returns before classifying when no track was read).
C8_UnmatchedRejectedWithSignal ==
    (pc = "run_done" /\ DiscoveredBefore # <<>> /\ mem.on_the_go_tracks # <<>>) =>
        UnmatchedEndRejected

\* a cycle that approved one record and rejected another
C8_Witness ==
    /\ pc = "run_done"
    /\ mem.on_the_go_tracks # <<>>
    /\ mem.approved # <<>>
    /\ mem.rejected # <<>>
    /\ Range(mem.rejected) \subseteq Range(Rejected)
    /\ Discovered = <<>>

\* C14: in every merge into the Liked ledger, when the merged content is
\* about to be written the backup file holds the content the ledger had
\* before the merge.
C14_BackupHoldsPreMerge ==
    /\ pc = "process_write" => files.liked_root_backup = files.liked_root
    /\ (pc = "enrich_write_liked" /\ files.liked # NoFile) =>
           files.liked_backup = files.liked

\* The four partition ledgers and the backup files the code writes for each
PartitionLedgers == {"liked", "discovered", "approved", "rejected"}

BackupsOf(f) ==
    CASE f = "liked" -> {"liked_backup"}
      [] f = "approved" -> {"approved_backup", "approved_backup2"}
      [] OTHER -> {}

\* C15: every step that rewrites (or deletes) a partition ledger file that
\* exists finds the content it destroys in a backup file of that ledger.
C15_RewriteAfterBackup ==
    [][\A f \in PartitionLedgers :
          (files[f] # NoFile /\ files'[f] # files[f]) =>
              \E b \in BackupsOf(f) : files[b] = files[f]]_vars

\* C22: when a cycle of run completes, the playlists its signal was read
\* from hold no tracks, be it the iTunes library or the iPod.
C22_SignalClearedAfterCycle ==
    (pc = "run_done" /\ mem.outcome = "complete") =>
        playlist[IF mem.use_ipod THEN "ipod" ELSE "library"] = <<>>

\* C24: no step takes a canonical ID out of the Approved or out of the
\* Rejected ledger, and a classification cycle keeps the content a ledger
\* had as the prefix of its new content.
C24_LedgersGrowMonotonically ==
    [][/\ TrackIdsOf(Approved) \subseteq TrackIdsOf(LoadedList(files'.approved))
       /\ TrackIdsOf(Rejected) \subseteq TrackIdsOf(LoadedList(files'.rejected))
       /\ pc \in {"run_write_approved", "run_write_rejected"} =>
             /\ SubSeq(LoadedList(files'.approved), 1, Len(Approved)) = Approved
             /\ SubSeq(LoadedList(files'.rejected), 1, Len(Rejected)) = Rejected]_vars

\* C25: a record that leaves the Discovered ledger is, after the step, in
\* exactly one of the Approved and the Rejected ledger; in particular a
\* discovery run leaves the pending records in the Discovered ledger.
C25_NoPendingRecordLost ==
    [][\A r \in Range(Discovered) \ Range(LoadedList(files'.discovered)) :
          /\ r \in Range(LoadedList(files'.approved)) \cup Range(LoadedList(files'.rejected))
          /\ r \notin Range(LoadedList(files'.approved)) \cap Range(LoadedList(files'.rejected))]_vars

-----------------------------------------------------------------------------
(* The workflow with interruptions.  A script can be stopped between two of
   its file writes, and a merge into the Liked ledger can also be stopped in
   the middle of a write.  open(path, 'w') empties the
   file and json.dump fills it piece by piece, so a write that is cut short
   leaves the file with only some of the records written in full. *)

\* The files a write of the records can leave behind when it is cut short
TornWrites(records) ==
    {File(SubSeq(records, 1, n)) : n \in 0..(Len(records) - 1)}

\* Interruptions of run are followed while the Approved and the Rejected
\* ledger together hold no more records than this
MaxInterrupted == 1

\* run is stopped after update_metadata_files has started writing: nothing
\* is rolled back, and the next run starts from the top
RunInterrupted ==
    /\ pc \in {"run_write_rejected", "run_unlink_discovered", "run_clear_playlist"}
    /\ Len(LoadedList(files.approved)) + Len(LoadedList(files.rejected)) <= MaxInterrupted
    /\ pc' = "idle"
    /\ mem' = NoLocals
    /\ UNCHANGED <<dirs, files, playlist, everClassified, inp, out>>

\* The file a step of a merge writes, the records it writes there, and the
\* ledger and the backup of that merge
MergeWrites ==
    [enrich_backup_liked |->
        [file |-> "liked_backup", records |-> LoadedList(files.liked),
         writes |-> files.liked # NoFile,
         ledger |-> "liked", backup |-> "liked_backup"],
     enrich_write_liked |->
        [file |-> "liked",
         records |-> IF pc = "enrich_write_liked" THEN mem.merged.liked_songs ELSE <<>>,
         writes |-> TRUE,
         ledger |-> "liked", backup |-> "liked_backup"],
     process_backup |->
        [file |-> "liked_root_backup",
         records |-> IF pc = "process_backup" THEN mem.merged.liked_songs ELSE <<>>,
         writes |-> TRUE,
         ledger |-> "liked_root", backup |-> "liked_root_backup"],
     process_write |->
        [file |-> "liked_root",
         records |-> IF pc = "process_write" THEN mem.merged.liked_songs ELSE <<>>,
         writes |-> TRUE,
         ledger |-> "liked_root", backup |-> "liked_root_backup"]]

\* A merge into the Liked ledger is stopped at its backup write or at its
\* ledger write: before the file is opened, or with the file torn.  The
\* script is gone; what the ledger held when it stopped is kept for the
\* properties.
MergeInterrupted ==
    /\ pc \in DOMAIN MergeWrites
    /\ LET w == MergeWrites[pc]
       IN  /\ \/ files' = files
              \/ /\ w.writes
                 /\ \E torn \in TornWrites(w.records) :
                       files' = [files EXCEPT ![w.file] = torn]
           /\ mem' = [script |-> "interrupted", ledger |-> w.ledger,
                      backup |-> w.backup,
                      before |-> LoadedList(files[w.ledger])]
    /\ pc' = "interrupted"
    /\ UNCHANGED <<dirs, playlist, everClassified, inp, out>>

NextRetry ==
    \/ UserAddsTrack
    \/ DiscoveryRun
    \/ RunStart \/ RunWriteApproved \/ RunWriteRejected
    \/ RunUnlinkDiscovered \/ RunClearPlaylist \/ RunReturn
    \/ RunInterrupted

\* SpecRetry: discovery and classification cycles, run stopped and run again
SpecRetry == Init /\ [][NextRetry]_vars

\* The longest Liked ledger and the longest Approved ledger a merge starts on
MaxCrashLedger == 2

MaxCrashBatch == 1

\* The ledgers a merge can find: any Liked ledger, its copy in the working
\* directory or none, and any Approved ledger with at least one record
InitMergeCrash ==
    /\ \E l \in SeqsUpTo({CatalogSong(id) : id \in TrackIds}, MaxCrashLedger) :
       \E a \in SeqsUpTo({CatalogSong(id) : id \in TrackIds}, MaxCrashBatch) \ {<<>>} :
       \E d \in {NoFile, File(l)} :
       \E r \in {NoFile, File(l)} :
          files = [NoLedgers EXCEPT !.liked = d, !.liked_root = r,
                                    !.approved = File(a)]
    /\ playlist = NoTracks
    /\ pc = "idle"
    /\ mem = NoLocals
    /\ everClassified = {}
    /\ dirs = NoMedia
    /\ PureIdle

NextMergeCrash ==
    \/ EnrichStart \/ EnrichBackupApproved \/ EnrichWriteApproved
    \/ EnrichBackupLiked \/ EnrichWriteLiked
    \/ ProcessStart \/ ProcessBackup \/ ProcessWrite
    \/ MergeInterrupted

\* SpecMergeCrash: the two scripts that merge into the Liked ledger, each
\* stopped at any point of its backup-then-overwrite sequence or not at all
SpecMergeCrash == InitMergeCrash /\ [][NextMergeCrash]_vars

\* C23: whatever step run was stopped at and however often it is run again,
\* no canonical ID occurs more than once in the Approved ledger or in the
\* Rejected ledger.
C23_RetryKeepsIdsUnique ==
    UniqueIds(Approved) /\ UniqueIds(Rejected)

\* C26: when a merge into the Liked ledger has been stopped, every record
\* the ledger held before the merge is in the ledger file or in its backup
\* file.
C26_PriorLedgerSurvives ==
    pc = "interrupted" =>
        \A r \in Range(mem.before) :
            r \in Range(LoadedList(files[mem.ledger]))
                   \cup Range(LoadedList(files[mem.backup]))

\* the ledger write was cut short and the ledger file has lost records
C26_Witness ==
    /\ pc = "interrupted"
    /\ mem.before # <<>>
    /\ Len(LoadedList(files[mem.ledger])) < Len(mem.before)
    /\ Range(mem.before) \subseteq Range(LoadedList(files[mem.backup]))

-----------------------------------------------------------------------------
(* SpecFinalize: the approved files on their way to the archive.  Step 4 of
   process_approved_songs.main and move_to_staging.py move them from
   discovered_songs/ to music/staging/ and copy them to music/library/;
   step 5 of main and finalize_staging.py ask for a confirmation and move
   them from music/staging/ to downloaded_songs/.  (The step between the
   two, which adds the files to iTunes on request, touches no directory.) *)

Yes == <<"y", "e", "s">>

\* What the user may type at the prompt
Answers ==
    {Yes, <<"Y", "E", "S">>, <<" ", "y", "e", "s", " ">>, <<"n", "o">>, <<>>}

\* main and move_to_staging.py start on a batch and a listing of
\* discovered_songs/ (move_to_staging.py asks no confirmation);
\* finalize_staging.py starts on what is in music/staging/
FinalizeInputs ==
    [script : {"process_approved_songs"},
     batch : SeqsUpTo({CatalogSong(id) : id \in TrackIds}, MaxStageBatch),
     discovered : DirListings,
     staging : {{}, {Mp3Name(Catalog["t3"])}},
     downloaded_songs : {{}},
     confirm : Answers]
    \cup
    [script : {"move_to_staging"},
     batch : SeqsUpTo({CatalogSong(id) : id \in TrackIds}, MaxStageBatch),
     discovered : DirListings,
     staging : {{}},
     downloaded_songs : {{}},
     confirm : {<<>>}]
    \cup
    [script : {"finalize_staging"},
     batch : {<<>>},
     discovered : {<<>>},
     staging : SUBSET {Mp3Name(Catalog["t1"]), Mp3Name(Catalog["t3"])},
     downloaded_songs : {{}, {Mp3Name(Catalog["t3"])}},
     confirm : Answers]

InitFinalize ==
    /\ files = NoLedgers
    /\ playlist = NoTracks
    /\ pc = "idle"
    /\ mem = NoLocals
    /\ everClassified = {}
    /\ inp \in FinalizeInputs
    /\ dirs = [discovered |-> inp.discovered, library |-> {},
               staging |-> inp.staging,
               downloaded_songs |-> inp.downloaded_songs]
    /\ out = <<>>

\* The locals of the two steps: the listing taken once before the loop, the
\* loop position, the file found, the files moved to staging, the position
\* in the archive loop, and the answer as the script compares it
FinalizeLocals(script, mp3_files) ==
    [script |-> script, mp3_files |-> mp3_files, k |-> 1, matched_file |-> None,
     moved_files |-> <<>>, j |-> 1, confirm |-> None]

\* confirm = input(...).strip().lower()
ReadConfirm(answer) == LowerStr(Strip(answer))

\* shutil.move(str(matched_file), str(staging_dest))
MoveToStaging(d, f) ==
    [d EXCEPT !.discovered = SelectSeq(@, LAMBDA x : x # f),
              !.staging = @ \cup {f}]

\* shutil.copy2(str(staging_dest), str(library_dest))
CopyStagedToLibrary(d, f) == [d EXCEPT !.library = @ \cup {f}]

\* (shutil.copy2 in place of shutil.move)
MoveToArchiveByCopy(d, f) ==
    [d EXCEPT !.downloaded_songs = @ \cup {f}]

\* shutil.move(str(mp3_file), str(dest))
MoveToArchive(d, f) ==
    [d EXCEPT !.staging = @ \ {f},
              !.downloaded_songs = @ \cup {f}]

\* mp3_files = list(discovered_folder.glob("*.mp3")), before the loop
StagingStart ==
    /\ pc = "idle"
    /\ inp.script \in {"process_approved_songs", "move_to_staging"}
    /\ mem' = FinalizeLocals(inp.script, dirs.discovered)
    /\ pc' = "staging_find"
    /\ UNCHANGED <<dirs, files, playlist, everClassified, inp, out>>

\* for metadata in ...: matched_file, score = find_matching_file(metadata,
\* mp3_files, threshold=0.75), on the listing taken before the loop
StagingFind ==
    /\ pc = "staging_find"
    /\ IF mem.k > Len(inp.batch)
       THEN /\ pc' = IF mem.script = "process_approved_songs"
                     THEN "archive_confirm" ELSE "done"
            /\ mem' = mem
       ELSE LET matched_file ==
                    find_matching_file(inp.batch[mem.k], mem.mp3_files, StageThreshold)[1]
            IN  IF matched_file = None
                THEN /\ pc' = "staging_find"
                     /\ mem' = [mem EXCEPT !.k = @ + 1]
                ELSE /\ pc' = "staging_move"
                     /\ mem' = [mem EXCEPT !.matched_file = matched_file]
    /\ UNCHANGED <<dirs, files, playlist, everClassified, inp, out>>

\* shutil.move of the file found: it raises FileNotFoundError, which nothing
\* catches, when the file is not in discovered_songs/
StagingMove ==
    /\ pc = "staging_move"
    /\ IF mem.matched_file[1] \in Range(dirs.discovered)
       THEN /\ dirs' = MoveToStaging(dirs, mem.matched_file[1])
            /\ pc' = "staging_copy"
       ELSE /\ dirs' = dirs
            /\ pc' = "raised"
    /\ UNCHANGED <<files, playlist, mem, everClassified, inp, out>>

\* the copy to music/library/, moved_files.append(staging_dest)
StagingCopy ==
    /\ pc = "staging_copy"
    /\ dirs' = CopyStagedToLibrary(dirs, mem.matched_file[1])
    /\ mem' = [mem EXCEPT !.moved_files = Append(@, mem.matched_file[1]),
                          !.k = @ + 1, !.matched_file = None]
    /\ pc' = "staging_find"
    /\ UNCHANGED <<files, playlist, everClassified, inp, out>>

\* finalize_staging.py: mp3_files = list(staging_folder.glob("*.mp3")), in
\* any order; exit(0) when there is none
FinalizeStart ==
    /\ pc = "idle"
    /\ inp.script = "finalize_staging"
    /\ \E mp3_files \in SeqsUpTo(dirs.staging, Cardinality(dirs.staging)) :
         /\ Len(mp3_files) = Cardinality(dirs.staging)
         /\ Range(mp3_files) = dirs.staging
         /\ mem' = [FinalizeLocals(inp.script, mp3_files) EXCEPT
                        !.moved_files = mp3_files]
         /\ pc' = IF mp3_files = <<>> THEN "done" ELSE "archive_confirm"
    /\ UNCHANGED <<dirs, files, playlist, everClassified, inp, out>>

\* confirm = input(...).strip().lower(); if confirm == "yes": ... else: ...
ArchiveConfirm ==
    /\ pc = "archive_confirm"
    /\ mem' = [mem EXCEPT !.confirm = Some(ReadConfirm(inp.confirm))]
    /\ pc' = IF ReadConfirm(inp.confirm) = Yes THEN "archive_move" ELSE "done"
    /\ UNCHANGED <<dirs, files, playlist, everClassified, inp, out>>

\* for mp3_file in ...: shutil.move(mp3_file, downloaded_songs/...); main
\* moves the files of its own batch that are still in staging
ArchiveMove ==
    /\ pc = "archive_move"
    /\ IF mem.j > Len(mem.moved_files)
       THEN /\ pc' = "done"
            /\ UNCHANGED <<dirs, mem>>
       ELSE /\ dirs' = IF mem.moved_files[mem.j] \in dirs.staging
                       THEN MoveToArchive(dirs, mem.moved_files[mem.j])
                       ELSE dirs
            /\ mem' = [mem EXCEPT !.j = @ + 1]
            /\ pc' = "archive_move"
    /\ UNCHANGED <<files, playlist, everClassified, inp, out>>

NextFinalize ==
    \/ StagingStart \/ StagingFind \/ StagingMove \/ StagingCopy
    \/ FinalizeStart \/ ArchiveConfirm \/ ArchiveMove

SpecFinalize == InitFinalize /\ [][NextFinalize]_vars

\* C21: a file is on its way from staging to the archive only when the
\* answer typed is exactly "yes".
C21_ArchiveOnlyOnExactYes ==
    pc = "archive_move" => inp.confirm = Yes

\* The script has asked and has not been answered yes
Declined == mem.script # "none" /\ mem.confirm # None /\ mem.confirm # Some(Yes)

\* C21 (amended): the archive loop runs only when the answer, stripped and
\* lowercased, is "yes"; after any other answer the archive is as it was and
\* staging holds what it held when the question was asked; after the loop
\* each file it went through is in the archive and not in staging.
C21_ArchiveGatedByConfirmation ==
    /\ pc = "archive_move" => ReadConfirm(inp.confirm) = Yes
    /\ (pc # "archive_move" /\ ~(pc = "done" /\ mem.confirm = Some(Yes))) =>
            dirs.downloaded_songs = inp.downloaded_songs
    /\ Declined =>
          /\ pc = "done"
          /\ dirs.downloaded_songs = inp.downloaded_songs
          /\ dirs.staging = inp.staging \cup
                (IF mem.script = "process_approved_songs"
                 THEN Range(mem.moved_files) ELSE {})
    /\ pc \in {"archive_move", "done"} /\ mem.script # "none" /\ mem.confirm = Some(Yes) =>
          \A j \in 1..(IF pc = "done" THEN Len(mem.moved_files) ELSE mem.j - 1) :
              /\ mem.moved_files[j] \in dirs.downloaded_songs
              /\ mem.moved_files[j] \notin dirs.staging

\* the loop has archived a file after an answer that is not literally "yes"
C21_Witness ==
    /\ pc = "done"
    /\ mem.confirm = Some(Yes)
    /\ inp.confirm # Yes
    /\ mem.moved_files # <<>>
    /\ Range(mem.moved_files) \subseteq dirs.downloaded_songs \ inp.downloaded_songs

\* C29: the file the move-to-staging loop is about to move is in
\* discovered_songs/: no file is selected twice in a batch.
C29_NeverMovesMissingFile ==
    /\ pc = "staging_move" => mem.matched_file[1] \in Range(dirs.discovered)
    /\ pc # "raised"

====
